---------------------------- MODULE Spec2Model ----------------------------
(***************************************************************************)
(* A model of scripts/gromacs/parse_gromacs_results.py: the extractor      *)
(* parse_gromacs_log, the collector parse_all_results, the reporter        *)
(* print_summary and the entry point main.                                 *)
(*                                                                         *)
(* Text is a sequence of one-character strings.  The regular expressions   *)
(* of the source are kept as patterns (sequences of elements) and are run  *)
(* by a backtracking matcher with the semantics of Python's re.search:     *)
(* leftmost start, greedy quantifiers, backtracking on failure.            *)
(* An optional value is <<>> (None) or <<v>>.  A float is the decimal      *)
(* fraction m / 10^e, kept canonical (no trailing zero in the fraction).   *)
(***************************************************************************)
EXTENDS Integers, Sequences, FiniteSets, TLC

(***************************************************************************)
(* Characters and character classes                                        *)
(***************************************************************************)
Digits == <<"0", "1", "2", "3", "4", "5", "6", "7", "8", "9">>

\* The characters of the model, in code point order (Python compares str by
\* code point).
AsciiOrder ==
  <<"\n", " ", ".", "/", "0", "1", "2", "3", "4", "5", "6", "7", "8", "9", ":",
    "A", "B", "C", "D", "E", "F", "I", "L", "N", "P", "S", "T", "U", "V", "_",
    "a", "b", "c", "d", "e", "f", "g", "h", "i", "k", "l", "m", "n", "o", "p",
    "r", "s", "t", "u", "v", "w", "x", "y">>

Ord(c) == CHOOSE i \in 1..Len(AsciiOrder) : AsciiOrder[i] = c

IsDigit(c) == \E i \in 1..Len(Digits) : Digits[i] = c
IsSpace(c) == c \in {" ", "\n"}

DigitVal(c) == (CHOOSE i \in 1..Len(Digits) : Digits[i] = c) - 1

\* Whether character c is in the class of pattern element e.
InClass(c, e) ==
  CASE e.k = "lit"   -> c = e.c
    [] e.k = "digit" -> IsDigit(c)                  \* \d
    [] e.k = "space" -> IsSpace(c)                  \* \s
    [] e.k = "num"   -> IsDigit(c) \/ c = "."       \* [\d.]
    [] e.k = "dot"   -> c # "\n"                    \* .
    [] e.k = "any"   -> TRUE                        \* fnmatch's *

(***************************************************************************)
(* Patterns.  An element matches one character of its class (many = FALSE) *)
(* or a greedy run of at least min of them (many = TRUE); grp > 0 makes    *)
(* the element capture group grp.  The element "end" matches at the end of *)
(* the text only.                                                          *)
(***************************************************************************)
Lit(str) ==
  [i \in 1..Len(str) |-> [k |-> "lit", c |-> str[i], many |-> FALSE, min |-> 1, grp |-> 0]]
Run(class, least, group) ==
  <<[k |-> class, c |-> "", many |-> TRUE, min |-> least, grp |-> group]>>
AtEnd == <<[k |-> "end", c |-> "", many |-> FALSE, min |-> 0, grp |-> 0]>>

Str_exclusive      == <<"e", "x", "c", "l", "u", "s", "i", "v", "e">>
Str_exclusive_numa == <<"e", "x", "c", "l", "u", "s", "i", "v", "e", "_", "n", "u", "m", "a">>
Str_shared_task    == <<"s", "h", "a", "r", "e", "d", "_", "t", "a", "s", "k">>
Str_log            == <<".", "l", "o", "g">>
Str_cpubind        == <<"c", "p", "u", "b", "i", "n", "d", ":">>
Str_cuda           == <<"C", "U", "D", "A", "_", "V", "I", "S", "I", "B", "L", "E", "_",
                        "D", "E", "V", "I", "C", "E", "S", ":">>
Str_Performance    == <<"P", "e", "r", "f", "o", "r", "m", "a", "n", "c", "e", ":">>
Str_nsday          == <<"n", "s", "/", "d", "a", "y">>
Str_Time           == <<"T", "i", "m", "e", ":">>
Str_Finished       == <<"F", "i", "n", "i", "s", "h", "e", "d", " ", "m", "d", "r", "u", "n">>
Str_wall           == <<"w", "a", "l", "l">>
Str_NA             == <<"N", "/", "A">>

\* r'exclusive_numa(\d+)'
ReExclusiveNuma == Lit(Str_exclusive_numa) \o Run("digit", 1, 1)
\* r'shared_task(\d+)'
ReSharedTask == Lit(Str_shared_task) \o Run("digit", 1, 1)
\* r'cpubind:\s*(\d+)'
ReCpubind == Lit(Str_cpubind) \o Run("space", 0, 0) \o Run("digit", 1, 1)
\* r'CUDA_VISIBLE_DEVICES:\s*(\d+)'
ReCuda == Lit(Str_cuda) \o Run("space", 0, 0) \o Run("digit", 1, 1)
\* r'Performance:\s+([\d.]+)\s+ns/day'
RePerformance ==
  Lit(Str_Performance) \o Run("space", 1, 0) \o Run("num", 1, 1)
    \o Run("space", 1, 0) \o Lit(Str_nsday)
\* r'([\d.]+)\s+ns/day'
ReNsDay == Run("num", 1, 1) \o Run("space", 1, 0) \o Lit(Str_nsday)
\* r'Time:\s+([\d.]+)\s+([\d.]+)\s+([\d.]+)'
ReTime ==
  Lit(Str_Time) \o Run("space", 1, 0) \o Run("num", 1, 1) \o Run("space", 1, 0)
    \o Run("num", 1, 2) \o Run("space", 1, 0) \o Run("num", 1, 3)
\* r'Finished mdrun.*\n.*wall\s+([\d.]+)\s+s'
ReFinished ==
  Lit(Str_Finished) \o Run("dot", 0, 0) \o Lit(<<"\n">>) \o Run("dot", 0, 0)
    \o Lit(Str_wall) \o Run("space", 1, 0) \o Run("num", 1, 1)
    \o Run("space", 1, 0) \o Lit(<<"s">>)
\* 'exclusive_numa*.log' and 'shared_task*.log', as fnmatch translates them
GlobExclusive == Lit(Str_exclusive_numa) \o Run("any", 0, 0) \o Lit(Str_log) \o AtEnd
GlobShared == Lit(Str_shared_task) \o Run("any", 0, 0) \o Lit(Str_log) \o AtEnd

(***************************************************************************)
(* The matcher.  A match is the sequence of its three groups, each <<>>    *)
(* (not set) or <<text>>; no match is NoMatch.                             *)
(***************************************************************************)
NoMatch == [matched |-> FALSE, g |-> <<>>]
NoGroups == <<<<>>, <<>>, <<>>>>

RECURSIVE RunLen(_, _, _)
\* The length of the longest run of characters of e's class in s from i.
RunLen(s, i, e) ==
  IF i <= Len(s) /\ InClass(s[i], e) THEN 1 + RunLen(s, i + 1, e) ELSE 0

RECURSIVE MatchAt(_, _, _, _, _)
RECURSIVE TryRun(_, _, _, _, _, _)
\* Elements k.. of pat against s from position i, with the groups g so far.
MatchAt(pat, k, s, i, g) ==
  IF k > Len(pat) THEN [matched |-> TRUE, g |-> g]
  ELSE LET e == pat[k] IN
    IF e.k = "end" THEN
      IF i = Len(s) + 1 THEN MatchAt(pat, k + 1, s, i, g) ELSE NoMatch
    ELSE IF e.many THEN TryRun(pat, k, s, i, RunLen(s, i, e), g)
    ELSE IF i <= Len(s) /\ InClass(s[i], e) THEN MatchAt(pat, k + 1, s, i + 1, g)
    ELSE NoMatch

\* The greedy run of element k: n characters first, then fewer (backtracking).
TryRun(pat, k, s, i, n, g) ==
  IF n < pat[k].min THEN NoMatch
  ELSE
    LET g2 == IF pat[k].grp > 0
              THEN [g EXCEPT ![pat[k].grp] = <<SubSeq(s, i, i + n - 1)>>]
              ELSE g
        r == MatchAt(pat, k + 1, s, i + n, g2)
    IN IF r.matched THEN r ELSE TryRun(pat, k, s, i, n - 1, g)

RECURSIVE SearchFrom(_, _, _)
SearchFrom(pat, s, i) ==
  IF i > Len(s) + 1 THEN NoMatch
  ELSE LET r == MatchAt(pat, 1, s, i, NoGroups)
       IN IF r.matched THEN r ELSE SearchFrom(pat, s, i + 1)

\* re.search(pat, s)
Search(pat, s) == SearchFrom(pat, s, 1)
\* fnmatch: the whole name against the pattern
FullMatch(pat, s) == MatchAt(pat, 1, s, 1, NoGroups).matched
\* match.group(n)
Group(r, n) == r.g[n][1]

\* sub in s
Contains(s, sub) == Search(Lit(sub), s).matched

(***************************************************************************)
(* int() and float() of a matched token                                    *)
(***************************************************************************)
None == <<>>
Some(v) == <<v>>

RECURSIVE IntOf(_)
\* int(digits), digits a non-empty run of \d
IntOf(tok) ==
  IF Len(tok) = 0 THEN 0
  ELSE 10 * IntOf(SubSeq(tok, 1, Len(tok) - 1)) + DigitVal(tok[Len(tok)])

DotCount(tok) == Cardinality({i \in 1..Len(tok) : tok[i] = "."})

\* float() raises ValueError on a token of [\d.]+ that is no number literal:
\* more than one point, or no digit at all.
FloatRaises(tok) == DotCount(tok) > 1 \/ DotCount(tok) = Len(tok)

RECURSIVE Canonical(_, _)
Canonical(m, e) ==
  IF e > 0 /\ m % 10 = 0 THEN Canonical(m \div 10, e - 1) ELSE [m |-> m, e |-> e]

\* float(tok) for a token float() accepts
FloatOf(tok) ==
  LET digs == SelectSeq(tok, IsDigit)
      frac == IF DotCount(tok) = 0 THEN 0
              ELSE Len(tok) - (CHOOSE i \in 1..Len(tok) : tok[i] = ".")
  IN Canonical(IntOf(digs), frac)


(***************************************************************************)
(* parse_gromacs_log.  An outcome is the record built so far and whether   *)
(* an exception (ValueError, from float()) has left the function.          *)
(***************************************************************************)
\* result = {...}
NewRecord(name) ==
  [file |-> name,
   type |-> IF Contains(name, Str_exclusive) THEN "exclusive" ELSE "shared",
   numa_node |-> None, task_id |-> None, gpu_id |-> None,
   performance_ns_day |-> None, wall_time_s |-> None, core_time_s |-> None]

\* result[field] = float(tok)
SetFloat(o, field, tok) ==
  IF o.exc THEN o
  ELSE IF FloatRaises(tok) THEN [o EXCEPT !.exc = TRUE]
  ELSE [o EXCEPT !.rec[field] = Some(FloatOf(tok))]

\* FilenameFields with the two searches made independent of the category.
FilenameFields_both(o, name) ==
  LET numa == Search(ReExclusiveNuma, name)
      task == Search(ReSharedTask, name)
      o1 == IF numa.matched
            THEN [o EXCEPT !.rec.numa_node = Some(IntOf(Group(numa, 1)))] ELSE o
  IN IF task.matched
     THEN [o1 EXCEPT !.rec.task_id = Some(IntOf(Group(task, 1)))] ELSE o1

\* Extract NUMA node (exclusive) or task ID (shared)
FilenameFields(o, name) ==
  IF Contains(name, Str_exclusive) THEN
    LET match == Search(ReExclusiveNuma, name)
    IN IF match.matched
       THEN [o EXCEPT !.rec.numa_node = Some(IntOf(Group(match, 1)))] ELSE o
  ELSE
    LET match == Search(ReSharedTask, name)
    IN IF match.matched
       THEN [o EXCEPT !.rec.task_id = Some(IntOf(Group(match, 1)))] ELSE o

\* NumaBinding that keeps a numa_node the name has given.
NumaBinding_keeps(o, content) ==
  LET numa_match == Search(ReCpubind, content)
  IN IF numa_match.matched /\ o.rec.numa_node = None
     THEN [o EXCEPT !.rec.numa_node = Some(IntOf(Group(numa_match, 1)))] ELSE o

\* Extract NUMA binding from numactl --show
NumaBinding(o, content) ==
  LET numa_match == Search(ReCpubind, content)
  IN IF numa_match.matched
     THEN [o EXCEPT !.rec.numa_node = Some(IntOf(Group(numa_match, 1)))] ELSE o

\* Extract GPU ID
GpuId(o, content) ==
  LET gpu_match == Search(ReCuda, content)
  IN IF gpu_match.matched
     THEN [o EXCEPT !.rec.gpu_id = Some(IntOf(Group(gpu_match, 1)))] ELSE o

\* Performance with the alternative pattern tried whatever the primary gave.
Performance_always_alt(o, content) ==
  LET perf_match == Search(RePerformance, content)
      o1 == IF perf_match.matched
            THEN SetFloat(o, "performance_ns_day", Group(perf_match, 1)) ELSE o
      alt_match == Search(ReNsDay, content)
  IN IF ~o1.exc /\ alt_match.matched
     THEN SetFloat(o1, "performance_ns_day", Group(alt_match, 1))
     ELSE o1

\* Extract performance (ns/day): the primary pattern, then the alternative
\* pattern when the primary one left the field None.
Performance(o, content) ==
  LET perf_match == Search(RePerformance, content)
      o1 == IF perf_match.matched
            THEN SetFloat(o, "performance_ns_day", Group(perf_match, 1)) ELSE o
      alt_match == Search(ReNsDay, content)
  IN IF ~o1.exc /\ o1.rec.performance_ns_day = None /\ alt_match.matched
     THEN SetFloat(o1, "performance_ns_day", Group(alt_match, 1))
     ELSE o1

\* Extract wall time: group 2 is converted first, then group 1; group 3 never.
WallTime(o, content) ==
  LET wall_match == Search(ReTime, content)
  IN IF ~o.exc /\ wall_match.matched
     THEN SetFloat(SetFloat(o, "wall_time_s", Group(wall_match, 2)),
                   "core_time_s", Group(wall_match, 1))
     ELSE o

\* FinishedMdrun that keeps a wall time the timing line has given.
FinishedMdrun_keeps(o, content) ==
  LET finished_match == Search(ReFinished, content)
  IN IF ~o.exc /\ finished_match.matched /\ o.rec.wall_time_s = None
     THEN SetFloat(o, "wall_time_s", Group(finished_match, 1))
     ELSE o

\* Extract from "Finished mdrun" timing line
FinishedMdrun(o, content) ==
  LET finished_match == Search(ReFinished, content)
  IN IF ~o.exc /\ finished_match.matched
     THEN SetFloat(o, "wall_time_s", Group(finished_match, 1))
     ELSE o

\* parse_gromacs_log once filepath.read_text() has returned content
parse_gromacs_log(name, content) ==
  FinishedMdrun(
    WallTime(
      Performance(
        GpuId(
          NumaBinding(
            FilenameFields([exc |-> FALSE, rec |-> NewRecord(name)], name),
            content),
          content),
        content),
      content),
    content)

(***************************************************************************)
(* parse_all_results: glob, sorted                                         *)
(***************************************************************************)
RECURSIVE StrLess(_, _)
\* a < b for two str (and so for two paths of one directory)
StrLess(a, b) ==
  IF Len(b) = 0 THEN FALSE
  ELSE IF Len(a) = 0 THEN TRUE
  ELSE IF a[1] # b[1] THEN Ord(a[1]) < Ord(b[1])
  ELSE StrLess(Tail(a), Tail(b))

RECURSIVE Sorted(_)
\* sorted(S) of a set of names
Sorted(S) ==
  IF S = {} THEN <<>>
  ELSE LET least == CHOOSE a \in S : \A b \in S \ {a} : StrLess(a, b)
       IN <<least>> \o Sorted(S \ {least})

Patterns == <<GlobExclusive, GlobShared>>

RECURSIVE Reverse(_)
Reverse(q) == IF q = <<>> THEN <<>> ELSE Reverse(Tail(q)) \o <<Head(q)>>
\* Glob without sorted(): the paths in another order.
Glob_unsorted(d, p) ==
  Reverse(Sorted({name \in DOMAIN d : FullMatch(Patterns[p], name)}))

\* sorted(data_dir.glob(pattern)) for pattern number p of the list
Glob(d, p) == Sorted({name \in DOMAIN d : FullMatch(Patterns[p], name)})

(***************************************************************************)
(* print_summary: str(), format specs, and the lines printed               *)
(***************************************************************************)
RECURSIVE IntToStr(_)
IntToStr(n) ==
  IF n < 10 THEN <<Digits[n + 1]>> ELSE IntToStr(n \div 10) \o <<Digits[(n % 10) + 1]>>

RECURSIVE Pow10(_)
Pow10(n) == IF n = 0 THEN 1 ELSE 10 * Pow10(n - 1)

RECURSIVE PadLeftZero(_, _)
PadLeftZero(str, width) ==
  IF Len(str) >= width THEN str ELSE PadLeftZero(<<"0">> \o str, width)

RECURSIVE PadRight(_, _)
\* f"{str:<width}"
PadRight(str, width) ==
  IF Len(str) >= width THEN str ELSE PadRight(str \o <<" ">>, width)

\* f"{num/den:.<places>f}", num >= 0, den > 0: the nearest fraction with places
\* decimals.  (An exact decimal tie is rounded to even here; Python rounds
\* the binary double, which the texts of this model never make a tie.)
Fixed(num, den, places) ==
  LET scaled == num * Pow10(places)
      q == scaled \div den
      r == scaled % den
      up == 2 * r > den \/ (2 * r = den /\ q % 2 = 1)
      n == IF up THEN q + 1 ELSE q
  IN IntToStr(n \div Pow10(places)) \o <<".">>
       \o PadLeftZero(IntToStr(n % Pow10(places)), places)

\* Python truthiness of an optional float: None and 0.0 are false.
Truthy(opt) == opt # None /\ opt[1].m # 0

\* r[field] if r[field] is not None else 'N/A'
IntCell(opt) == IF opt # None THEN IntToStr(opt[1]) ELSE Str_NA
\* f"{r[field]:.<places>f}" if r[field] else 'N/A'
FloatCell(opt, places) ==
  IF Truthy(opt) THEN Fixed(opt[1].m, Pow10(opt[1].e), places) ELSE Str_NA

\* x[field] or 0
KeyOf(opt) == IF opt # None /\ opt[1] # 0 THEN opt[1] ELSE 0

RECURSIVE InsertByKey(_, _, _)
InsertByKey(sorted, r, field) ==
  IF sorted = <<>> THEN <<r>>
  ELSE IF KeyOf(r[field]) < KeyOf(sorted[Len(sorted)][field])
       THEN InsertByKey(SubSeq(sorted, 1, Len(sorted) - 1), r, field)
              \o <<sorted[Len(sorted)]>>
       ELSE sorted \o <<r>>

RECURSIVE SortedByKey(_, _)
\* sorted(rs, key=lambda x: x[field] or 0): stable
SortedByKey(rs, field) ==
  IF rs = <<>> THEN <<>>
  ELSE InsertByKey(SortedByKey(SubSeq(rs, 1, Len(rs) - 1), field), rs[Len(rs)], field)

IsExclusive(r) == r.type = "exclusive"
IsShared(r) == r.type = "shared"
HasPerf(r) == Truthy(r.performance_ns_day)

RECURSIVE SumScaled(_, _)
\* sum of the performances of rs in units of 10^-e
SumScaled(rs, e) ==
  IF rs = <<>> THEN 0
  ELSE LET v == rs[1].performance_ns_day[1]
       IN v.m * Pow10(e - v.e) + SumScaled(Tail(rs), e)

MaxE(rs) ==
  LET es == {rs[i].performance_ns_day[1].e : i \in 1..Len(rs)}
  IN CHOOSE e \in es : \A f \in es : f <= e

\* perfs = [...]; if perfs: print(f"\nAverage: {sum(perfs)/len(perfs):.3f} ns/day")
AverageLines(subset, section) ==
  LET perfs == SelectSeq(subset, HasPerf)
  IN IF perfs # <<>>
     THEN <<[k |-> "Average", section |-> section,
             text |-> Fixed(SumScaled(perfs, MaxE(perfs)),
                            Pow10(MaxE(perfs)) * Len(perfs), 3)]>>
     ELSE <<>>

ExclusiveRow(r) ==
  [k |-> "Row", section |-> "exclusive", file |-> r.file,
   cells |-> [numa_node |-> PadRight(IntCell(r.numa_node), 6),
              gpu_id |-> PadRight(IntCell(r.gpu_id), 5),
              performance_ns_day |-> PadRight(FloatCell(r.performance_ns_day, 3), 12),
              wall_time_s |-> PadRight(FloatCell(r.wall_time_s, 1), 15)]]

SharedRow(r) ==
  [k |-> "Row", section |-> "shared", file |-> r.file,
   cells |-> [task_id |-> PadRight(IntCell(r.task_id), 6),
              numa_node |-> PadRight(IntCell(r.numa_node), 6),
              gpu_id |-> PadRight(IntCell(r.gpu_id), 5),
              performance_ns_day |-> PadRight(FloatCell(r.performance_ns_day, 3), 12),
              wall_time_s |-> PadRight(FloatCell(r.wall_time_s, 1), 15)]]

ExclusiveTable(rs) ==
  LET exclusive == SelectSeq(rs, IsExclusive)
      rows == SortedByKey(exclusive, "numa_node")
  IN IF exclusive # <<>>
     THEN <<[k |-> "Header", section |-> "exclusive"]>>
            \o [i \in 1..Len(rows) |-> ExclusiveRow(rows[i])]
            \o AverageLines(exclusive, "exclusive")
     ELSE <<>>

SharedTable(rs) ==
  LET shared == SelectSeq(rs, IsShared)
      rows == SortedByKey(shared, "task_id")
  IN IF shared # <<>>
     THEN <<[k |-> "Header", section |-> "shared"]>>
            \o [i \in 1..Len(rows) |-> SharedRow(rows[i])]
            \o AverageLines(shared, "shared")
     ELSE <<>>

\* The lines print_summary(rs) prints.
print_summary(rs) ==
  IF rs = <<>> THEN <<[k |-> "NoResults"]>>
  ELSE <<[k |-> "Title"]>> \o ExclusiveTable(rs) \o SharedTable(rs) \o <<[k |-> "Rule"]>>

(***************************************************************************)
(* json.dumps(results, indent=2): an array of objects with every field,    *)
(* None as null                                                            *)
(***************************************************************************)
Str_null == <<"n", "u", "l", "l">>
\* float.__repr__ of a float in the range printed without exponent
FloatRepr(v) ==
  IntToStr(v.m \div Pow10(v.e)) \o <<".">>
    \o PadLeftZero(IntToStr(v.m % Pow10(v.e)), IF v.e = 0 THEN 1 ELSE v.e)
JsonOptInt(opt) == IF opt = None THEN Str_null ELSE IntToStr(opt[1])
JsonOptFloat(opt) == IF opt = None THEN Str_null ELSE FloatRepr(opt[1])
JsonDumps(rs) ==
  [i \in 1..Len(rs) |->
    [file |-> rs[i].file, type |-> rs[i].type,
     numa_node |-> JsonOptInt(rs[i].numa_node),
     task_id |-> JsonOptInt(rs[i].task_id),
     gpu_id |-> JsonOptInt(rs[i].gpu_id),
     performance_ns_day |-> JsonOptFloat(rs[i].performance_ns_day),
     wall_time_s |-> JsonOptFloat(rs[i].wall_time_s),
     core_time_s |-> JsonOptFloat(rs[i].core_time_s)]]

(***************************************************************************)
(* The inputs: command lines and data directories.  A directory maps each  *)
(* file name to its text and to whether read_text() returns it (a file     *)
(* that cannot be read or decoded, or a directory of that name, raises).   *)
(***************************************************************************)
MaxPieces == 3
MaxFiles == 2
MaxMid == 2

RECURSIVE Concat(_)
Concat(ps) == IF ps = <<>> THEN <<>> ELSE ps[1] \o Concat(Tail(ps))

\* Every text made of at most n pieces.
Texts(pieces, n) == {Concat(ps) : ps \in UNION {[1..k -> pieces] : k \in 0..n}}

Txt_Performance == <<"P", "e", "r", "f", "o", "r", "m", "a", "n", "c", "e", ":">>
Txt_PerformanceSp == <<"P", "e", "r", "f", "o", "r", "m", "a", "n", "c", "e", ":", " ">>
Txt_7_5_nsday == <<"7", ".", "5", " ", "n", "s", "/", "d", "a", "y">>
Txt_1 == <<"1">>
Txt_point == <<".">>
Txt_sp_nsday == <<" ", "n", "s", "/", "d", "a", "y">>
Txt_1_nsday == <<"1", " ", "n", "s", "/", "d", "a", "y", "\n">>
PerfPieces ==
  {Txt_Performance, Txt_PerformanceSp, Txt_7_5_nsday, Txt_1, Txt_point, Txt_sp_nsday,
   Txt_1_nsday}

Txt_Time == <<"T", "i", "m", "e", ":", " ", "1", "0", ".", "0", " ", "2", "0", ".", "0", " ", "5", ".", "0", "\n">>
Txt_TimeBadThird == <<"T", "i", "m", "e", ":", " ", "1", " ", "2", " ", ".", "\n">>
Txt_TimeBadCore == <<"T", "i", "m", "e", ":", " ", "1", ".", "2", ".", "3", " ", "4", " ", "5", "\n">>
Txt_Finished == <<"F", "i", "n", "i", "s", "h", "e", "d", " ", "m", "d", "r", "u", "n", "\n">>
Txt_wall == <<"w", "a", "l", "l", " ", "2", "5", ".", "0", " ", "s", "\n">>
Txt_wall3 == <<" ", "w", "a", "l", "l", " ", "3", " ", "s">>
Txt_wallBad == <<"w", "a", "l", "l", " ", ".", " ", "s", "\n">>
Txt_nl == <<"\n">>
TimePieces == {Txt_Time, Txt_TimeBadThird, Txt_TimeBadCore, Txt_Finished, Txt_wall, Txt_wall3, Txt_wallBad, Txt_nl}

Txt_cpubind1 == <<"c", "p", "u", "b", "i", "n", "d", ":", " ", "1">>
Txt_cpubind == <<"c", "p", "u", "b", "i", "n", "d", ":">>
Txt_2 == <<"2">>
Txt_x == <<"x">>
Txt_cuda0 == <<"C", "U", "D", "A", "_", "V", "I", "S", "I", "B", "L", "E", "_", "D", "E", "V", "I", "C", "E", "S", ":", " ", "0">>
NumaPieces == {Txt_cpubind1, Txt_cpubind, Txt_2, Txt_x, Txt_nl, Txt_cuda0}

Txt_0_nsday == <<"0", " ", "n", "s", "/", "d", "a", "y">>
Txt_2_5_nsday == <<"P", "e", "r", "f", "o", "r", "m", "a", "n", "c", "e", ":", " ", "2", ".", "5", " ", "n", "s", "/", "d", "a", "y">>
Txt_bad_nsday == <<".", " ", "n", "s", "/", "d", "a", "y">>
Txt_exclusive_numa3_log == <<"e", "x", "c", "l", "u", "s", "i", "v", "e", "_", "n", "u", "m", "a", "3", ".", "l", "o", "g">>
Txt_shared_task12_log == <<"s", "h", "a", "r", "e", "d", "_", "t", "a", "s", "k", "1", "2", ".", "l", "o", "g">>
Txt__exclusive == <<"_", "e", "x", "c", "l", "u", "s", "i", "v", "e">>
Txt__exclusive_numa == <<"_", "e", "x", "c", "l", "u", "s", "i", "v", "e", "_", "n", "u", "m", "a">>
Txt_txt == <<".", "t", "x", "t">>
Txt_exclusive_numa1_log == <<"e", "x", "c", "l", "u", "s", "i", "v", "e", "_", "n", "u", "m", "a", "1", ".", "l", "o", "g">>
Txt_exclusive_numa10_log == <<"e", "x", "c", "l", "u", "s", "i", "v", "e", "_", "n", "u", "m", "a", "1", "0", ".", "l", "o", "g">>
Txt_exclusive_numa2_log == <<"e", "x", "c", "l", "u", "s", "i", "v", "e", "_", "n", "u", "m", "a", "2", ".", "l", "o", "g">>
Txt_shared_task0_log == <<"s", "h", "a", "r", "e", "d", "_", "t", "a", "s", "k", "0", ".", "l", "o", "g">>
Txt_shared_task3_log == <<"s", "h", "a", "r", "e", "d", "_", "t", "a", "s", "k", "3", ".", "l", "o", "g">>
Txt_exclusive_numa1_txt == <<"e", "x", "c", "l", "u", "s", "i", "v", "e", "_", "n", "u", "m", "a", "1", ".", "t", "x", "t">>

File(text, ok) == [content |-> text, readable |-> ok]
EmptyDir == [name \in {} |-> File(<<>>, TRUE)]
OneFile(name, f) == [n \in {name} |-> f]

\* args after parse_args(): whether args.data_dir exists, whether --output
\* and --quiet were given
Args(exists, output, quiet) ==
  [data_dir_exists |-> exists, output |-> output, quiet |-> quiet]

\* One log with a text about performance, timing, or binding.
ContentDirs ==
  {OneFile(Txt_exclusive_numa3_log, File(t, TRUE)) :
     t \in Texts(PerfPieces, MaxPieces) \cup Texts(TimePieces, MaxPieces)}
  \cup {OneFile(n, File(t, TRUE)) :
          n \in {Txt_exclusive_numa3_log, Txt_shared_task12_log},
          t \in Texts(NumaPieces, MaxPieces)}

\* One file whose name starts like a log's name.
Names ==
  {pre \o mid \o suf :
     pre \in {Str_exclusive_numa, Str_shared_task},
     mid \in Texts({Txt__exclusive, Txt__exclusive_numa, Txt_1, Txt_x}, MaxMid),
     suf \in {Str_log, Txt_txt}}
NameDirs == {OneFile(n, File(t, TRUE)) : n \in Names, t \in {<<>>, Txt_cpubind1}}

\* Several files, some of which cannot be read or hold a malformed number.
PoolNames ==
  {Txt_exclusive_numa1_log, Txt_exclusive_numa10_log, Txt_exclusive_numa2_log,
   Txt_shared_task0_log, Txt_shared_task3_log, Txt_exclusive_numa1_txt}
PoolFiles ==
  {File(t, TRUE) : t \in {<<>>, Txt_0_nsday, Txt_2_5_nsday, Txt_bad_nsday}}
    \cup {File(<<>>, FALSE)}
PoolDirs ==
  UNION {[S -> PoolFiles] : S \in {T \in SUBSET PoolNames : Cardinality(T) <= MaxFiles}}

Scenarios ==
  {[args |-> Args(TRUE, TRUE, FALSE), dir |-> d] :
     d \in ContentDirs \cup NameDirs \cup PoolDirs}
  \cup {[args |-> Args(TRUE, o, q), dir |-> d] :
          o \in BOOLEAN, q \in BOOLEAN,
          d \in {e \in PoolDirs : Cardinality(DOMAIN e) <= 1}}
  \cup {[args |-> Args(FALSE, o, q), dir |-> EmptyDir] : o \in BOOLEAN, q \in BOOLEAN}

(***************************************************************************)
(* The program                                                             *)
(***************************************************************************)
VARIABLES
  args,         \* the parsed command line
  dir,          \* the data directory
  pc,           \* where main is: "main", "collect", "summary", "write", "done"
  pattern,      \* parse_all_results: the number of the pattern being globbed
  todo,         \* parse_all_results: the paths of the pattern still to visit
  results,      \* parse_all_results: the list of records
  reads,        \* the names read_text() was called on, in order
  stdout,       \* the lines printed
  output_file   \* None, or the text written to args.output

vars == <<args, dir, pc, pattern, todo, results, reads, stdout, output_file>>

Init ==
  /\ \E sc \in Scenarios : args = sc.args /\ dir = sc.dir
  /\ pc = "main"
  /\ pattern = 0
  /\ todo = <<>>
  /\ results = <<>>
  /\ reads = <<>>
  /\ stdout = <<>>
  /\ output_file = None

\* main: the data directory does not exist
MainNoDataDir ==
  /\ pc = "main"
  /\ ~args.data_dir_exists
  /\ stdout' = stdout \o <<[k |-> "DataDirNotFound"], [k |-> "RunBenchmarksFirst"]>>
  /\ pc' = "done"
  /\ UNCHANGED <<args, dir, pattern, todo, results, reads, output_file>>

\* main calls parse_all_results: results = [], the first pattern is globbed
MainCollect ==
  /\ pc = "main"
  /\ args.data_dir_exists
  /\ pc' = "collect"
  /\ pattern' = 1
  /\ todo' = Glob(dir, 1)
  /\ results' = <<>>
  /\ UNCHANGED <<args, dir, reads, stdout, output_file>>

\* The outcome of the try block for a path: read_text, then the extraction.
TryParse(name) ==
  IF dir[name].readable
  THEN parse_gromacs_log(name, dir[name].content)
  ELSE [exc |-> TRUE, rec |-> NewRecord(name)]

\* try: result = parse_gromacs_log(filepath); results.append(result); print
ParseFile ==
  /\ pc = "collect"
  /\ todo # <<>>
  /\ ~TryParse(Head(todo)).exc
  /\ results' = Append(results, TryParse(Head(todo)).rec)
  /\ stdout' = Append(stdout, [k |-> "Parsed", file |-> Head(todo)])
  /\ reads' = Append(reads, Head(todo))
  /\ todo' = Tail(todo)
  /\ UNCHANGED <<args, dir, pc, pattern, output_file>>

\* ParseError without the try: the exception leaves parse_all_results and main.
ParseError_propagates ==
  /\ pc = "collect"
  /\ todo # <<>>
  /\ TryParse(Head(todo)).exc
  /\ reads' = Append(reads, Head(todo))
  /\ pc' = "done"
  /\ UNCHANGED <<args, dir, pattern, todo, results, stdout, output_file>>

\* except Exception as e: print(f"Error parsing ...")
ParseError ==
  /\ pc = "collect"
  /\ todo # <<>>
  /\ TryParse(Head(todo)).exc
  /\ stdout' = Append(stdout, [k |-> "Error", file |-> Head(todo)])
  /\ reads' = Append(reads, Head(todo))
  /\ todo' = Tail(todo)
  /\ UNCHANGED <<args, dir, pc, pattern, results, output_file>>

\* for pattern in [...]: the next pattern
NextPattern ==
  /\ pc = "collect"
  /\ todo = <<>>
  /\ pattern < Len(Patterns)
  /\ pattern' = pattern + 1
  /\ todo' = Glob(dir, pattern + 1)
  /\ UNCHANGED <<args, dir, pc, results, reads, stdout, output_file>>

\* return results
CollectReturn ==
  /\ pc = "collect"
  /\ todo = <<>>
  /\ pattern = Len(Patterns)
  /\ pc' = "summary"
  /\ UNCHANGED <<args, dir, pattern, todo, results, reads, stdout, output_file>>

\* if not args.quiet: print_summary(results)
Summary ==
  /\ pc = "summary"
  /\ stdout' = IF ~args.quiet THEN stdout \o print_summary(results) ELSE stdout
  /\ pc' = "write"
  /\ UNCHANGED <<args, dir, pattern, todo, results, reads, output_file>>

\* Write placed under 'if not args.quiet'.
Write_unless_quiet ==
  /\ pc = "write"
  /\ output_file' = IF args.output /\ ~args.quiet
                    THEN Some(JsonDumps(results)) ELSE output_file
  /\ stdout' = IF args.output /\ ~args.quiet
               THEN Append(stdout, [k |-> "Saved"]) ELSE stdout
  /\ pc' = "done"
  /\ UNCHANGED <<args, dir, pattern, todo, results, reads>>

\* if args.output: args.output.write_text(json.dumps(results, indent=2)); print
Write ==
  /\ pc = "write"
  /\ output_file' = IF args.output THEN Some(JsonDumps(results)) ELSE output_file
  /\ stdout' = IF args.output THEN Append(stdout, [k |-> "Saved"]) ELSE stdout
  /\ pc' = "done"
  /\ UNCHANGED <<args, dir, pattern, todo, results, reads>>

Next ==
  \/ MainNoDataDir
  \/ MainCollect
  \/ ParseFile
  \/ ParseError
  \/ NextPattern
  \/ CollectReturn
  \/ Summary
  \/ Write

Spec == Init /\ [][Next]_vars

(***************************************************************************)
(* What the log lines say, stated on the text itself: an occurrence of a   *)
(* pattern is given by the positions of its words, runs of blanks and      *)
(* number tokens (maximal runs of digits and points).                      *)
(***************************************************************************)
WordAt(s, i, word) ==
  /\ i >= 1
  /\ i + Len(word) - 1 <= Len(s)
  /\ \A j \in 1..Len(word) : s[i + j - 1] = word[j]

IsBlank(c) == c = " " \/ c = "\n"
IsNumberChar(c) == c \in {"0", "1", "2", "3", "4", "5", "6", "7", "8", "9", "."}

\* The first position from i on that holds no blank (no number character).
AfterBlanks(s, i) ==
  CHOOSE j \in i..(Len(s) + 1) :
    /\ \A k \in i..(j - 1) : IsBlank(s[k])
    /\ j = Len(s) + 1 \/ ~IsBlank(s[j])
AfterNumber(s, i) ==
  CHOOSE j \in i..(Len(s) + 1) :
    /\ \A k \in i..(j - 1) : IsNumberChar(s[k])
    /\ j = Len(s) + 1 \/ ~IsNumberChar(s[j])

\* blanks, then a number token, from position i: the token's first position
\* and the position after it, or <<>>.
BlanksNumber(s, i) ==
  LET a == AfterBlanks(s, i)
      b == AfterNumber(s, a)
  IN IF a > i /\ b > a THEN <<a, b>> ELSE <<>>

Least(S) == CHOOSE i \in S : \A j \in S : i <= j
Greatest(S) == CHOOSE i \in S : \A j \in S : j <= i

\* A token is a number when it has one point at most and a digit.
IsNumber(tok) ==
  /\ Cardinality({i \in 1..Len(tok) : tok[i] = "."}) <= 1
  /\ \E i \in 1..Len(tok) : tok[i] \in {"0", "1", "2", "3", "4", "5", "6", "7", "8", "9"}

RECURSIVE DigitSum(_, _)
\* The digits of tok from position i on, read as a decimal integer.
DigitSum(tok, i) ==
  IF i > Len(tok) THEN 0
  ELSE IF tok[i] = "." THEN DigitSum(tok, i + 1)
  ELSE LET later == Cardinality({j \in (i + 1)..Len(tok) : tok[j] # "."})
       IN DigitVal(tok[i]) * Pow10(later) + DigitSum(tok, i + 1)

FractionDigits(tok) ==
  IF \E i \in 1..Len(tok) : tok[i] = "."
  THEN Len(tok) - (CHOOSE i \in 1..Len(tok) : tok[i] = ".") ELSE 0

\* The optional float opt is the number the token tok writes.
IsValueOf(opt, tok) ==
  /\ opt # None
  /\ opt[1].m * Pow10(FractionDigits(tok)) = DigitSum(tok, 1) * Pow10(opt[1].e)

\* 'Performance:' blanks number blanks 'ns/day' at i: the number token
PrimaryAt(s, i) ==
  IF ~WordAt(s, i, Str_Performance) THEN <<>>
  ELSE LET n == BlanksNumber(s, i + Len(Str_Performance))
       IN IF n # <<>> /\ AfterBlanks(s, n[2]) > n[2]
               /\ WordAt(s, AfterBlanks(s, n[2]), Str_nsday)
          THEN <<SubSeq(s, n[1], n[2] - 1)>> ELSE <<>>

\* number blanks 'ns/day' at i: the number token
UnitAt(s, i) ==
  LET b == AfterNumber(s, i)
  IN IF b > i /\ AfterBlanks(s, b) > b /\ WordAt(s, AfterBlanks(s, b), Str_nsday)
     THEN <<SubSeq(s, i, b - 1)>> ELSE <<>>

\* 'Time:' blanks number blanks number blanks number at i: the first two tokens
TimingAt(s, i) ==
  IF ~WordAt(s, i, Str_Time) THEN <<>>
  ELSE LET n1 == BlanksNumber(s, i + Len(Str_Time))
           n2 == IF n1 = <<>> THEN <<>> ELSE BlanksNumber(s, n1[2])
           n3 == IF n2 = <<>> THEN <<>> ELSE BlanksNumber(s, n2[2])
       IN IF n3 # <<>>
          THEN <<[core |-> SubSeq(s, n1[1], n1[2] - 1),
                  wall |-> SubSeq(s, n2[1], n2[2] - 1),
                  third |-> SubSeq(s, n3[1], n3[2] - 1)]>>
          ELSE <<>>

\* 'wall' blanks number blanks 's' at j: the number token
WallAt(s, j) ==
  IF ~WordAt(s, j, Str_wall) THEN <<>>
  ELSE LET n == BlanksNumber(s, j + Len(Str_wall))
       IN IF n # <<>> /\ AfterBlanks(s, n[2]) > n[2]
               /\ WordAt(s, AfterBlanks(s, n[2]), <<"s">>)
          THEN <<SubSeq(s, n[1], n[2] - 1)>> ELSE <<>>

\* 'Finished mdrun' at i and, on the very next line, 'wall <number> s' starting
\* there: the number token of the last such 'wall' of that line
FinishedAt(s, i) ==
  IF ~WordAt(s, i, Str_Finished) THEN <<>>
  ELSE LET from == i + Len(Str_Finished)
           nls == {j \in from..Len(s) : s[j] = "\n"}
       IN IF nls = {} THEN <<>>
          ELSE LET nl == Least(nls)
                   eol == Least({j \in (nl + 1)..(Len(s) + 1) :
                                   j = Len(s) + 1 \/ s[j] = "\n"})
                   walls == {j \in (nl + 1)..eol : WallAt(s, j) # <<>>}
               IN IF walls = {} THEN <<>> ELSE WallAt(s, Greatest(walls))

\* The first (leftmost) occurrence of what At finds, or <<>>.
First(s, At(_, _)) ==
  LET where == {i \in 1..Len(s) : At(s, i) # <<>>}
  IN IF where = {} THEN <<>> ELSE At(s, Least(where))

\* The token the performance comes from: the primary pattern's, else the
\* first number followed by the unit.
PerformanceToken(s) ==
  IF First(s, PrimaryAt) # <<>> THEN First(s, PrimaryAt) ELSE First(s, UnitAt)

\* A token that is converted is no number.
MalformedNumber(s) ==
  \/ PerformanceToken(s) # <<>> /\ ~IsNumber(PerformanceToken(s)[1])
  \/ /\ First(s, TimingAt) # <<>>
     /\ ~IsNumber(First(s, TimingAt)[1].core) \/ ~IsNumber(First(s, TimingAt)[1].wall)
  \/ First(s, FinishedAt) # <<>> /\ ~IsNumber(First(s, FinishedAt)[1])

Records == {results[i] : i \in 1..Len(results)}
ErrorFiles == {stdout[i].file : i \in {j \in 1..Len(stdout) : stdout[j].k = "Error"}}
ContentOf(r) == dir[r.file].content
Visited == {reads[i] : i \in 1..Len(reads)}

Float(m, e) == <<[m |-> m, e |-> e]>>

(***************************************************************************)
(* C2: the extractor never raises on any text: every file that was read    *)
(* gives a record, so an 'Error parsing' line is printed only for a file   *)
(* read_text() could not read.  The code contradicts it: float() raises on *)
(* a token such as '.' or '1.2.3'.                                         *)
(***************************************************************************)
C2_NeverRaisesOnContent ==
  \A name \in ErrorFiles : ~dir[name].readable

(***************************************************************************)
(* C4 as stated: with no match of the primary pattern, a text that holds   *)
(* '7.5 ns/day' somewhere gives performance 7.5.                           *)
(***************************************************************************)
C4_Original_AnyOccurrenceYields ==
  \A r \in Records :
    /\ First(ContentOf(r), PrimaryAt) = <<>>
    /\ \E i \in 1..Len(ContentOf(r)) : WordAt(ContentOf(r), i, Txt_7_5_nsday)
    => r.performance_ns_day = Float(75, 1)

(***************************************************************************)
(* C4 amended: the performance of a record is the number of the primary    *)
(* pattern's first match when there is one; otherwise it is the number of  *)
(* the leftmost whole number token (maximal run of digits and points) that *)
(* is followed by blanks and 'ns/day'; it is unset when there is neither.  *)
(* A file is reported as an error instead of giving a record exactly when  *)
(* it cannot be read or a converted token is no number.                    *)
(***************************************************************************)
C4_FirstTokenBeforeUnit ==
  /\ \A r \in Records :
       LET s == ContentOf(r)
       IN /\ First(s, PrimaryAt) # <<>>
               => IsValueOf(r.performance_ns_day, First(s, PrimaryAt)[1])
          /\ First(s, PrimaryAt) = <<>> /\ First(s, UnitAt) # <<>>
               => IsValueOf(r.performance_ns_day, First(s, UnitAt)[1])
          /\ First(s, PrimaryAt) = <<>> /\ First(s, UnitAt) = <<>>
               => r.performance_ns_day = None
  /\ \A name \in Visited :
       (name \in ErrorFiles) <=>
         (~dir[name].readable \/ MalformedNumber(dir[name].content))

\* The fallback gave 17.5 for a text that holds '7.5 ns/day' and no match of
\* the primary pattern.
C4_Witness ==
  \E r \in Records :
    /\ First(ContentOf(r), PrimaryAt) = <<>>
    /\ \E i \in 1..Len(ContentOf(r)) : WordAt(ContentOf(r), i, Txt_7_5_nsday)
    /\ r.performance_ns_day = Float(175, 1)

(***************************************************************************)
(* C3: a record's core time is the first number of the first timing line   *)
(* 'Time: <core> <wall> <third>'; its wall time is the number of           *)
(* 'wall <w> s' on the line after 'Finished mdrun' when the text has that  *)
(* pair (the override wins), else the timing line's second number; the     *)
(* third number is stored nowhere.  A text whose converted tokens are all  *)
(* numbers gives a record.                                                 *)
(***************************************************************************)
C3_OverrideWins ==
  /\ \A r \in Records :
       LET s == ContentOf(r)
           t == First(s, TimingAt)
           f == First(s, FinishedAt)
       IN /\ t # <<>> => IsValueOf(r.core_time_s, t[1].core)
          /\ t = <<>> => r.core_time_s = None
          /\ f # <<>> => IsValueOf(r.wall_time_s, f[1])
          /\ f = <<>> /\ t # <<>> => IsValueOf(r.wall_time_s, t[1].wall)
          /\ f = <<>> /\ t = <<>> => r.wall_time_s = None
  /\ \A name \in Visited :
       dir[name].readable /\ ~MalformedNumber(dir[name].content)
         => name \notin ErrorFiles

\* A text with the timing line 10.0 20.0 5.0 and the pair with 25.0 gave wall
\* time 25.0 and core time 10.0.
C3_Witness ==
  \E r \in Records :
    /\ First(ContentOf(r), TimingAt) # <<>>
    /\ First(ContentOf(r), TimingAt)[1].wall = <<"2", "0", ".", "0">>
    /\ First(ContentOf(r), FinishedAt) = <<<<"2", "5", ".", "0">>>>
    /\ r.wall_time_s = Float(25, 0)
    /\ r.core_time_s = Float(10, 0)

(***************************************************************************)
(* Names: the category marker and the two numbered prefixes                *)
(***************************************************************************)
HasWord(s, word) == \E i \in 1..Len(s) : WordAt(s, i, word)

AfterDigits(s, i) ==
  CHOOSE j \in i..(Len(s) + 1) :
    /\ \A k \in i..(j - 1) : IsNumberChar(s[k]) /\ s[k] # "."
    /\ j = Len(s) + 1 \/ ~IsNumberChar(s[j]) \/ s[j] = "."

\* word, then digits, at i: the digits
WordDigitsAt(s, i, word, blanksAllowed) ==
  IF ~WordAt(s, i, word) THEN <<>>
  ELSE LET a == IF blanksAllowed THEN AfterBlanks(s, i + Len(word)) ELSE i + Len(word)
           b == AfterDigits(s, a)
       IN IF b > a THEN <<SubSeq(s, a, b - 1)>> ELSE <<>>

NumaNameAt(s, i) == WordDigitsAt(s, i, Str_exclusive_numa, FALSE)
TaskNameAt(s, i) == WordDigitsAt(s, i, Str_shared_task, FALSE)
CpubindAt(s, i) == WordDigitsAt(s, i, Str_cpubind, TRUE)

MatchesExclusive(name) ==
  /\ Len(name) >= Len(Str_exclusive_numa) + Len(Str_log)
  /\ WordAt(name, 1, Str_exclusive_numa)
  /\ WordAt(name, Len(name) - Len(Str_log) + 1, Str_log)
MatchesShared(name) ==
  /\ Len(name) >= Len(Str_shared_task) + Len(Str_log)
  /\ WordAt(name, 1, Str_shared_task)
  /\ WordAt(name, Len(name) - Len(Str_log) + 1, Str_log)
Matching == {name \in DOMAIN dir : MatchesExclusive(name) \/ MatchesShared(name)}

(***************************************************************************)
(* C5 as stated: every record is exclusive or shared, shared iff the name  *)
(* lacks 'exclusive', and the name populates exactly one of numa_node and  *)
(* task_id: numa_node on an exclusive record, task_id on a shared one.     *)
(* (Records whose text has no cpubind line, so that numa_node is the       *)
(* name's.)                                                                *)
(***************************************************************************)
C5_Original_ExactlyOne ==
  \A r \in Records :
    First(ContentOf(r), CpubindAt) = <<>> =>
      /\ r.type \in {"exclusive", "shared"}
      /\ r.type = "shared" <=> ~HasWord(r.file, Str_exclusive)
      /\ r.type = "exclusive" => r.numa_node # None /\ r.task_id = None
      /\ r.type = "shared" => r.task_id # None /\ r.numa_node = None

(***************************************************************************)
(* C5 amended: every record is exclusive or shared, shared iff the name    *)
(* lacks 'exclusive'; the name populates at most one of numa_node and      *)
(* task_id: numa_node exactly when the name holds 'exclusive_numa'         *)
(* directly followed by a digit (the record is then exclusive), task_id    *)
(* exactly when the record is shared and the name holds 'shared_task'      *)
(* directly followed by a digit; task_id is never set on an exclusive      *)
(* record, and each value is the number the digits write.                  *)
(***************************************************************************)
C5_AtMostOne ==
  \A r \in Records :
    /\ r.type \in {"exclusive", "shared"}
    /\ r.type = "shared" <=> ~HasWord(r.file, Str_exclusive)
    /\ r.type = "exclusive" => r.task_id = None
    /\ r.task_id # None <=> r.type = "shared" /\ First(r.file, TaskNameAt) # <<>>
    /\ r.task_id # None => r.task_id = <<DigitSum(First(r.file, TaskNameAt)[1], 1)>>
    /\ First(ContentOf(r), CpubindAt) = <<>> =>
         /\ r.numa_node # None <=> First(r.file, NumaNameAt) # <<>>
         /\ r.numa_node # None =>
              /\ r.type = "exclusive"
              /\ r.numa_node = <<DigitSum(First(r.file, NumaNameAt)[1], 1)>>
         /\ r.numa_node = None \/ r.task_id = None

\* 'shared_task_exclusive1.log' was globbed and gave an exclusive record with
\* neither field set.
C5_Witness ==
  \E r \in Records :
    /\ r.file = Str_shared_task \o Txt__exclusive \o Txt_1 \o Str_log
    /\ r.type = "exclusive"
    /\ r.numa_node = None
    /\ r.task_id = None

(***************************************************************************)
(* C10: a record's numa_node is the number of the first 'cpubind:' that is *)
(* followed (after optional blanks) by digits, when the text has one, on   *)
(* shared records too; otherwise it is the number after the name's first   *)
(* 'exclusive_numa<digits>', and unset when the name has none (a shared    *)
(* file's never has).                                                      *)
(***************************************************************************)
C10_NumaNode ==
  \A r \in Records :
    LET c == First(ContentOf(r), CpubindAt)
        n == First(r.file, NumaNameAt)
    IN /\ c # <<>> => r.numa_node = <<DigitSum(c[1], 1)>>
       /\ c = <<>> /\ n # <<>> => r.numa_node = <<DigitSum(n[1], 1)>>
       /\ c = <<>> /\ n = <<>> => r.numa_node = None
       /\ c = <<>> /\ r.type = "shared" => r.numa_node = None

\* The text's first binding (2) replaced the 3 of 'exclusive_numa3.log',
\* although a later binding says 1.
C10_Witness ==
  \E r \in Records :
    /\ r.file = Txt_exclusive_numa3_log
    /\ Cardinality({i \in 1..Len(ContentOf(r)) : CpubindAt(ContentOf(r), i) # <<>>}) = 2
    /\ r.numa_node = <<2>>

(***************************************************************************)
(* C8: the files are visited, and the records listed, in this order: the   *)
(* files matching 'exclusive_numa*.log' before those matching              *)
(* 'shared_task*.log', and in ascending order of name within a pattern; no *)
(* name matches both patterns and no file is visited twice; the records    *)
(* are in the order of the visits, whatever files failed.                  *)
(***************************************************************************)
\* a sorts strictly before b
Before(a, b) ==
  \E k \in 1..Len(b) :
    /\ \A j \in 1..(k - 1) : j <= Len(a) /\ a[j] = b[j]
    /\ k = Len(a) + 1 \/ (k <= Len(a) /\ Ord(a[k]) < Ord(b[k]))

InOrder(a, b) ==
  \/ MatchesExclusive(a) /\ MatchesShared(b)
  \/ MatchesExclusive(a) /\ MatchesExclusive(b) /\ Before(a, b)
  \/ MatchesShared(a) /\ MatchesShared(b) /\ Before(a, b)

Failing ==
  {name \in Matching : ~dir[name].readable \/ MalformedNumber(dir[name].content)}
ErrorLines == {i \in 1..Len(stdout) : stdout[i].k = "Error"}

C1_Returned ==
  pc \in {"summary", "write", "done"} /\ args.data_dir_exists =>
    /\ Visited = Matching
    /\ {r.file : r \in Records} = Matching \ Failing
    /\ Len(results) = Cardinality(Matching \ Failing)
    /\ ErrorFiles = Failing
    /\ Cardinality(ErrorLines) = Cardinality(Failing)
    /\ Len(results) + Cardinality(ErrorLines) = Cardinality(Matching)

\* In the loop, the files visited and those still to visit are the matching
\* files of the patterns reached so far, and a pattern is always at hand.
C1_InLoop ==
  pc = "collect" =>
    /\ pattern \in 1..Len(Patterns)
    /\ Visited \cup {todo[i] : i \in 1..Len(todo)}
         = {name \in Matching : MatchesExclusive(name) \/ pattern = Len(Patterns)}
    /\ Len(reads) = Len(results) + Cardinality(ErrorLines)

\* How far main is from its end.
PcRank ==
  CASE pc = "main" -> 4 [] pc = "collect" -> 3 [] pc = "summary" -> 2
    [] pc = "write" -> 1 [] pc = "done" -> 0

\* A step brings main nearer to its end, or the loop nearer to its return:
\* the next pattern, or one file less to visit for the current pattern.
Progress ==
  \/ PcRank' < PcRank
  \/ PcRank' = PcRank /\ pattern' > pattern /\ pattern' <= Len(Patterns)
  \/ PcRank' = PcRank /\ pattern' = pattern /\ Len(todo') < Len(todo)

\* C1: after the loop one record per file that did not fail, one error line
\* per file that failed; the loop keeps its invariant and every step of it
\* makes progress towards the return.
C1_PartialFailure ==
  /\ [](C1_Returned /\ C1_InLoop)
  /\ [][pc = "collect" => Progress /\ pc' \in {"collect", "summary"}]_vars

\* A file failed, the file after it was still parsed, and the run ended.
C1_Witness ==
  /\ pc = "done"
  /\ Len(stdout) >= 2
  /\ stdout[1].k = "Error"
  /\ stdout[2].k = "Parsed"
  /\ Len(results) = 1
  /\ Cardinality(Matching) = 2

(***************************************************************************)
(* C9: the output file is written iff the data directory exists and        *)
(* --output is given, whatever --quiet; the summary is printed iff the     *)
(* directory exists and --quiet is not given; with no data directory a     *)
(* message is printed, no file is read, nothing else happens; every step   *)
(* brings main nearer to its return.                                       *)
(***************************************************************************)
SummaryPrinted == \E i \in 1..Len(stdout) : stdout[i].k \in {"NoResults", "Title"}
NotFoundPrinted == \E i \in 1..Len(stdout) : stdout[i].k = "DataDirNotFound"

C9_Flags ==
  /\ output_file # None => args.data_dir_exists /\ args.output
  /\ SummaryPrinted => args.data_dir_exists /\ ~args.quiet
  /\ ~args.data_dir_exists => reads = <<>> /\ results = <<>>
  /\ pc = "done" =>
       /\ output_file # None <=> args.data_dir_exists /\ args.output
       /\ SummaryPrinted <=> args.data_dir_exists /\ ~args.quiet
       /\ NotFoundPrinted <=> ~args.data_dir_exists

RECURSIVE SumOver(_, _)
\* The sum of the performances of the records of R in units of 10^-e.
SumOver(R, e) ==
  IF R = {} THEN 0
  ELSE LET r == CHOOSE x \in R : TRUE
       IN r.performance_ns_day[1].m * Pow10(e - r.performance_ns_day[1].e)
            + SumOver(R \ {r}, e)

MeanText(R) ==
  LET e == Greatest({r.performance_ns_day[1].e : r \in R})
  IN Fixed(SumOver(R, e), Pow10(e) * Cardinality(R), 3)

\* C6: an Average line per category iff a performance is not None, showing
\* the mean of the performances that are not None.
C6_AverageOverNonNull ==
  pc \in {"write", "done"} /\ SummaryPrinted =>
    \A section \in {"exclusive", "shared"} :
      LET nonnull == {r \in Records : r.type = section /\ r.performance_ns_day # None}
          averages == {i \in 1..Len(stdout) :
                         stdout[i].k = "Average" /\ stdout[i].section = section}
      IN /\ averages = {} <=> nonnull = {}
         /\ \A i \in averages : stdout[i].text = MeanText(nonnull)

(***************************************************************************)
(* C7: in every row of the tables a cell shows 'N/A' exactly when the      *)
(* record's field of that column is None.  The code contradicts it: a      *)
(* performance or wall time of 0.0 is shown as 'N/A'.                      *)
(***************************************************************************)
C7_NAOnlyWhenMissing ==
  \A i \in 1..Len(stdout) :
    stdout[i].k = "Row" =>
      \A r \in {x \in Records : x.file = stdout[i].file} :
        \A field \in DOMAIN stdout[i].cells :
          SubSeq(stdout[i].cells[field], 1, Len(Str_NA)) = Str_NA
            <=> r[field] = None

=============================================================================
